---- MODULE Spec2Model ----
(***************************************************************************)
(* The routine tools of wger-mcp (add/update/delete day, add/update        *)
(* exercise, delete slot, get routine details) as a state machine over the *)
(* remote wger store.  Every await of a handler is one step; a remote      *)
(* request may succeed, be rejected, or be applied with its response lost. *)
(***************************************************************************)
EXTENDS Integers, Sequences, FiniteSets, TLC

VARIABLES
    store,      \* the remote collections and their id counters
    creds,      \* authManager.hasCredentials()
    call,       \* per caller: the handler invocation in progress / just ended
    prev,       \* per caller: what is kept of the invocation before it
    ncalls,     \* invocations started so far
    limit,      \* invocations a run may start
    failures,   \* remote failures injected so far
    written,    \* history: per slot entry, the last value written of each metric
    gone,       \* history: slots deleted through deleteSlot, and their entries
    resp        \* per caller: the call_tool request being served / its response

vars == <<store, creds, call, prev, ncalls, limit, failures, written, gone, resp>>

-----------------------------------------------------------------------------
(* Bounds *)

MaxCalls == 2
MaxCallsAll == 1
MaxFailures == 1
\* calls of a run that first adds a day and then adds two exercises
MaxCallsNames == 3

Callers == {1, 2}
Solo == {1}

-----------------------------------------------------------------------------
(* Optional values (undefined | value) and strings.                        *)
(* A string is [txt, len]: the first len characters of the text txt, so    *)
(* that substring(0, n) is computed and not assumed.                       *)

None == <<>>
Some(x) == <<x>>
IsSome(o) == o # <<>>
OrElse(o, d) == IF o = <<>> THEN d ELSE o[1]

Str(t, n) == [txt |-> t, len |-> n]
Empty == Str("", 0)
Truthy(s) == s.len > 0

NameMax == 50
Substring0(s, n) == IF s.len > n THEN Str(s.txt, n) ELSE s

\* Number.prototype.toString on a non-negative integer
NumToString(n) == ToString(n)

WorkoutDay == Str("Workout Day", 11)
DayN(k) == Str("Day " \o ToString(k), 4 + Len(ToString(k)))

\* optional string || fallback
OrFallback(o, fb) == IF IsSome(o) /\ Truthy(o[1]) THEN o[1] ELSE fb

-----------------------------------------------------------------------------
(* The remote store behind wgerClient.                                     *)

Kinds == <<"sets", "reps", "weight">>
KindSet == {"sets", "reps", "weight"}

RECURSIVE Perms(_)
Perms(S) ==
    IF S = {} THEN {<<>>}
    ELSE UNION {{<<x>> \o p : p \in Perms(S \ {x})} : x \in S}

\* GET /day/?routine=rid: the endpoint may ignore the filter and return all days
ListDays(st, rid) == {{d \in st.days : d.routine = rid}, st.days}
ListSlots(st, dayId) == {s \in st.slots : s.day = dayId}
ListEntries(st, slotId) == {e \in st.entries : e.slot = slotId}
ListCfg(st, k, entryId) == {g \in st[k] : g.slot_entry = entryId}

HasId(S, id) == \E x \in S : x.id = id
ById(S, id) == CHOOSE x \in S : x.id = id

NewDay(st, body) ==
    [id |-> st.next.day, routine |-> body.routine, order |-> body.order,
     name |-> OrElse(body.name, Empty),
     description |-> OrElse(body.description, Empty),
     is_rest |-> OrElse(body.is_rest, FALSE)]
CanPostDay(st, body) == body.routine \in st.routines
PostDay(st, body) ==
    [st EXCEPT !.days = @ \cup {NewDay(st, body)}, !.next.day = @ + 1]

\* PATCH: only the fields present in the JSON body are written
PatchedDay(d, body) ==
    [d EXCEPT !.name = OrElse(body.name, @),
              !.description = OrElse(body.description, @),
              !.is_rest = OrElse(body.is_rest, @)]
PatchDay(st, id, body) ==
    [st EXCEPT !.days = {IF d.id = id THEN PatchedDay(d, body) ELSE d : d \in @}]

DeleteDay(st, id) == [st EXCEPT !.days = {d \in @ : d.id # id}]

NewSlot(st, body) == [id |-> st.next.slot, day |-> body.day, order |-> body.order]
CanPostSlot(st, body) == HasId(st.days, body.day)
PostSlot(st, body) ==
    [st EXCEPT !.slots = @ \cup {NewSlot(st, body)}, !.next.slot = @ + 1]

\* DELETE /slot/{id}/ removes the slot and, at the store, its slot entries
DeleteSlot(st, id) ==
    [st EXCEPT !.slots = {s \in @ : s.id # id},
               !.entries = {e \in @ : e.slot # id}]

NewEntry(st, body) ==
    [id |-> st.next.entry, slot |-> body.slot, exercise |-> body.exercise,
     order |-> body.order, comment |-> body.comment]
CanPostEntry(st, body) == HasId(st.slots, body.slot)
PostEntry(st, body) ==
    [st EXCEPT !.entries = @ \cup {NewEntry(st, body)}, !.next.entry = @ + 1]

NewCfg(st, k, body) ==
    [id |-> st.next[k], slot_entry |-> body.slot_entry,
     iteration |-> body.iteration, value |-> body.value]
CanPostCfg(st, body) == HasId(st.entries, body.slot_entry)
PostCfg(st, k, body) ==
    [st EXCEPT ![k] = @ \cup {NewCfg(st, k, body)}, !.next[k] = @ + 1]
PatchCfg(st, k, id, body) ==
    [st EXCEPT ![k] = {IF g.id = id THEN [g EXCEPT !.value = body.value] ELSE g : g \in @}]


-----------------------------------------------------------------------------
(* The initial store: an account edited before (e.g. through the web       *)
(* client): routine 1 with two days, one of them a rest day, and routine 2 *)
(* without days.                                                           *)

NameA == Str("A", 1)
NameB == Str("B", 1)
NameC == Str("C", 1)
\* a name of one character more than a Day name may have
NameLong == Str("L", NameMax + 1)

SeedStore ==
    [routines |-> {1, 2},
     days |-> {[id |-> 1, routine |-> 1, order |-> 2, name |-> NameA,
                description |-> NameA, is_rest |-> FALSE],
               [id |-> 2, routine |-> 1, order |-> 1, name |-> NameB,
                description |-> Empty, is_rest |-> TRUE]},
     slots |-> {[id |-> 1, day |-> 1, order |-> 2],
                [id |-> 2, day |-> 1, order |-> 1]},
     entries |-> {[id |-> 1, slot |-> 1, exercise |-> 12, order |-> 2, comment |-> Empty],
                  [id |-> 2, slot |-> 1, exercise |-> 12, order |-> 1, comment |-> Empty]},
     sets |-> {[id |-> 1, slot_entry |-> 1, iteration |-> 1, value |-> 3]},
     reps |-> {},
     weight |-> {[id |-> 1, slot_entry |-> 1, iteration |-> 1, value |-> "20"]},
     next |-> [day |-> 3, slot |-> 3, entry |-> 3, sets |-> 2, reps |-> 1, weight |-> 2]]

NoWrites == [sets |-> None, reps |-> None, weight |-> None]
SeedWritten ==
    [e \in {1, 2} |->
        IF e = 1 THEN [sets |-> Some(3), reps |-> None, weight |-> Some(20)]
        ELSE NoWrites]

-----------------------------------------------------------------------------
(* Handler invocations *)

Idle ==
    [op |-> "none", args |-> <<>>, pc |-> "idle", loc |-> <<>>, reqs |-> <<>>,
     err |-> "", ret |-> <<>>, pre |-> <<>>]

\* no call_tool request received
NoRequest == [name |-> "", state |-> "none", isError |-> FALSE, text |-> ""]

Req(m, coll, id, out) == [m |-> m, coll |-> coll, id |-> id, out |-> out]

RemoteErrors == {"ApiError", "NetworkError"}

\* what a remote request can come to: a request the store cannot serve is
\* rejected (ApiError); any other may also fail while failures are left to
\* inject: rejected (ApiError), or applied with the response lost (NetworkError)
Outcomes(valid) ==
    IF ~valid THEN {"ApiError"}
    ELSE {"ok"} \cup (IF failures < MaxFailures THEN RemoteErrors ELSE {})
Applied(o) == o \in {"ok", "NetworkError"}
Charge(valid, o) == IF valid /\ o # "ok" THEN failures + 1 ELSE failures

Busy(c) == call[c].pc \notin {"idle", "done"}
At(c, op, pc) == call[c].op = op /\ call[c].pc = pc

frame == <<creds, prev, ncalls, limit, resp>>

\* a head that parses the input before it looks at the credentials
EnterRecSchemaFirst(op, args, valid, verr, loc0, pc0) ==
    [op |-> op, args |-> args, loc |-> loc0, reqs |-> <<>>, ret |-> <<>>,
     pre |-> store,
     pc |-> IF creds /\ valid THEN pc0 ELSE "done",
     err |-> IF ~valid THEN verr
             ELSE IF ~creds THEN "AuthenticationError" ELSE ""]

\* what is kept of an invocation once the next one starts: its arguments,
\* requests and result if it succeeded, nothing if it failed
Kept(q) == IF q.err = "" THEN [q EXCEPT !.loc = <<>>] ELSE Idle

\* the synchronous head of every handler: credentials first, then the schema
EnterRec(op, args, valid, verr, loc0, pc0) ==
    [op |-> op, args |-> args, loc |-> loc0, reqs |-> <<>>, ret |-> <<>>,
     pre |-> store,
     pc |-> IF creds /\ valid THEN pc0 ELSE "done",
     err |-> IF ~creds THEN "AuthenticationError"
             ELSE IF ~valid THEN verr ELSE ""]

Enter(c, op, args, valid, verr, loc0) ==
    /\ ~Busy(c)
    /\ ncalls < limit
    /\ ncalls' = ncalls + 1
    /\ prev' = [prev EXCEPT ![c] = Kept(call[c])]
    /\ call' = [call EXCEPT ![c] = EnterRec(op, args, valid, verr, loc0, "getToken")]
    /\ UNCHANGED <<store, creds, limit, failures, written, gone>>

\* the invocation of caller c after a step that issued request rq
Throw(c, rq) ==
    [call[c] EXCEPT !.reqs = Append(@, rq), !.pc = "done", !.err = rq.out]
Go(c, rq, pc, loc) ==
    [call[c] EXCEPT !.reqs = Append(@, rq), !.pc = pc, !.loc = loc]
Return(c, rq, ret) ==
    [call[c] EXCEPT !.reqs = Append(@, rq), !.pc = "done", !.ret = ret]

TokenOutcomes == {"ok"} \cup RemoteErrors
TokenReq(o) == Req("TOKEN", "auth", 0, o)

\* await authManager.getToken(): after[o] is the invocation once it came to o
GetToken(c, op, after) ==
    /\ At(c, op, "getToken")
    /\ \E o \in Outcomes(TRUE) :
          /\ failures' = Charge(TRUE, o)
          /\ call' = [call EXCEPT ![c] = after[o]]
    /\ UNCHANGED <<store, frame, written, gone>>

DayResults(st, rid) == UNION {Perms(S) : S \in ListDays(st, rid)}

-----------------------------------------------------------------------------
(* manage-day.ts *)

AddDayArgs ==
    [routineId : {Some(1), Some(2)}, description : {None, Some(Empty), Some(NameA)},
     is_rest : {None}]
    \cup {[routineId |-> None, description |-> None, is_rest |-> None]}
AddDaySchema(a) == IsSome(a.routineId)

\* a body that names the day by its position only
AddDayBodyNumbered(input, currentCount) ==
    [routine |-> input.routineId[1],
     description |-> input.description,
     is_rest |-> Some(OrElse(input.is_rest, FALSE)),
     order |-> currentCount + 1,
     name |-> Some(DayN(currentCount + 1))]

AddDayBody(input, currentCount) ==
    [routine |-> input.routineId[1],
     description |-> input.description,
     is_rest |-> Some(OrElse(input.is_rest, FALSE)),
     order |-> currentCount + 1,
     name |-> Some(OrFallback(IF IsSome(input.description)
                                THEN Some(Substring0(input.description[1], NameMax))
                                ELSE None,
                              DayN(currentCount + 1)))]

addDay_Enter(c) ==
    \E a \in AddDayArgs :
        Enter(c, "addDay", a, AddDaySchema(a), "ZodError", [currentCount |-> 0])

addDay_GetToken(c) ==
    GetToken(c, "addDay",
        [o \in TokenOutcomes |->
            IF o = "ok" THEN Go(c, TokenReq(o), "getDays", call[c].loc)
            ELSE Throw(c, TokenReq(o))])

addDay_GetDays(c) ==
    /\ At(c, "addDay", "getDays")
    /\ \E o \in Outcomes(TRUE) :
          /\ failures' = Charge(TRUE, o)
          /\ LET rq == Req("GET", "day", 0, o) IN
             IF o # "ok" THEN call' = [call EXCEPT ![c] = Throw(c, rq)]
             ELSE \E results \in DayResults(store, call[c].args.routineId[1]) :
                    call' = [call EXCEPT ![c] =
                        Go(c, rq, "postDay", [currentCount |-> Len(results)])]
    /\ UNCHANGED <<store, frame, written, gone>>

addDay_PostDay(c) ==
    /\ At(c, "addDay", "postDay")
    /\ LET body == AddDayBody(call[c].args, call[c].loc.currentCount)
           ok == CanPostDay(store, body) IN
       \E o \in Outcomes(ok) :
          /\ failures' = Charge(ok, o)
          /\ store' = IF ok /\ Applied(o) THEN PostDay(store, body) ELSE store
          /\ LET rq == Req("POST", "day", 0, o) IN
             call' = [call EXCEPT ![c] =
                 IF o = "ok" THEN Return(c, rq, NewDay(store, body)) ELSE Throw(c, rq)]
    /\ UNCHANGED <<frame, written, gone>>

addDayToRoutineHandler(c) ==
    \/ addDay_Enter(c) /\ UNCHANGED resp
    \/ addDay_GetToken(c)
    \/ addDay_GetDays(c)
    \/ addDay_PostDay(c)

UpdateDayArgs ==
    [dayId : {Some(1), Some(2)}, description : {None, Some(NameC)},
     is_rest : {None, Some(TRUE)}, name : {None, Some(NameC), Some(NameLong)}]
    \cup {[dayId |-> None, description |-> None, is_rest |-> None, name |-> None]}
UpdateDaySchema(a) == IsSome(a.dayId)

\* a body that defaults is_rest as AddDaySchema does
UpdateDayBodyDefaulted(input) ==
    [description |-> input.description, is_rest |-> Some(OrElse(input.is_rest, FALSE)),
     name |-> input.name]

UpdateDayBody(input) ==
    [description |-> input.description, is_rest |-> input.is_rest, name |-> input.name]

updateDay_Enter(c) ==
    \E a \in UpdateDayArgs :
        Enter(c, "updateDay", a, UpdateDaySchema(a), "ZodError", <<>>)

updateDay_GetToken(c) ==
    GetToken(c, "updateDay",
        [o \in TokenOutcomes |->
            IF o = "ok" THEN Go(c, TokenReq(o), "patchDay", call[c].loc)
            ELSE Throw(c, TokenReq(o))])

updateDay_PatchDay(c) ==
    /\ At(c, "updateDay", "patchDay")
    /\ LET id == call[c].args.dayId[1]
           body == UpdateDayBody(call[c].args)
           ok == HasId(store.days, id) IN
       \E o \in Outcomes(ok) :
          /\ failures' = Charge(ok, o)
          /\ store' = IF ok /\ Applied(o) THEN PatchDay(store, id, body) ELSE store
          /\ LET rq == Req("PATCH", "day", id, o) IN
             call' = [call EXCEPT ![c] =
                 IF o = "ok" THEN Return(c, rq, PatchedDay(ById(store.days, id), body))
                 ELSE Throw(c, rq)]
    /\ UNCHANGED <<frame, written, gone>>

updateDayHandler(c) ==
    \/ updateDay_Enter(c) /\ UNCHANGED resp
    \/ updateDay_GetToken(c)
    \/ updateDay_PatchDay(c)

DeleteDayArgs == {[dayId |-> Some(1)], [dayId |-> Some(2)], [dayId |-> None]}
DeleteDaySchema(a) == IsSome(a.dayId)

deleteDay_Enter(c) ==
    \E a \in DeleteDayArgs :
        Enter(c, "deleteDay", a, DeleteDaySchema(a), "ZodError", <<>>)

deleteDay_GetToken(c) ==
    GetToken(c, "deleteDay",
        [o \in TokenOutcomes |->
            IF o = "ok" THEN Go(c, TokenReq(o), "deleteDay", call[c].loc)
            ELSE Throw(c, TokenReq(o))])

deleteDay_Delete(c) ==
    /\ At(c, "deleteDay", "deleteDay")
    /\ LET id == call[c].args.dayId[1]
           ok == HasId(store.days, id) IN
       \E o \in Outcomes(ok) :
          /\ failures' = Charge(ok, o)
          /\ store' = IF ok /\ Applied(o) THEN DeleteDay(store, id) ELSE store
          /\ LET rq == Req("DELETE", "day", id, o) IN
             call' = [call EXCEPT ![c] =
                 IF o = "ok" THEN Return(c, rq, [success |-> TRUE, id |-> id])
                 ELSE Throw(c, rq)]
    /\ UNCHANGED <<frame, written, gone>>

deleteDayHandler(c) ==
    \/ deleteDay_Enter(c) /\ UNCHANGED resp
    \/ deleteDay_GetToken(c)
    \/ deleteDay_Delete(c)

-----------------------------------------------------------------------------
(* delete-slot.ts: deleteSlotHandler *)

DeleteSlotArgs == {[slotId |-> Some(1)], [slotId |-> Some(3)], [slotId |-> None]}
DeleteSlotSchema(a) == IsSome(a.slotId)

\* a delete sent to the slot entry of that id
DeleteEntryRequest(input) == [coll |-> "slot-entry", id |-> input.slotId[1]]

\* the one request of deleteSlot: DELETE /slot/{slotId}/
DeleteSlotRequest(input) == [coll |-> "slot", id |-> input.slotId[1]]

StoreDelete(st, coll, id) ==
    IF coll = "slot" THEN DeleteSlot(st, id)
    ELSE IF coll = "day" THEN DeleteDay(st, id)
    ELSE [st EXCEPT !.entries = {e \in @ : e.id # id}]
StoreHas(st, coll, id) ==
    IF coll = "slot" THEN HasId(st.slots, id)
    ELSE IF coll = "day" THEN HasId(st.days, id)
    ELSE HasId(st.entries, id)

deleteSlot_Enter(c) ==
    \E a \in DeleteSlotArgs :
        Enter(c, "deleteSlot", a, DeleteSlotSchema(a), "ZodError", <<>>)

deleteSlot_GetToken(c) ==
    GetToken(c, "deleteSlot",
        [o \in TokenOutcomes |->
            IF o = "ok" THEN Go(c, TokenReq(o), "deleteSlot", call[c].loc)
            ELSE Throw(c, TokenReq(o))])

deleteSlot_Delete(c) ==
    /\ At(c, "deleteSlot", "deleteSlot")
    /\ LET id == call[c].args.slotId[1]
           r == DeleteSlotRequest(call[c].args)
           ok == StoreHas(store, r.coll, r.id) IN
       \E o \in Outcomes(ok) :
          /\ failures' = Charge(ok, o)
          /\ store' = IF ok /\ Applied(o) THEN StoreDelete(store, r.coll, r.id) ELSE store
          /\ gone' = IF o = "ok"
                     THEN [slots |-> gone.slots \cup {id},
                           entries |-> gone.entries \cup
                                {e.id : e \in ListEntries(store, id)}]
                     ELSE gone
          /\ LET rq == Req("DELETE", r.coll, r.id, o) IN
             call' = [call EXCEPT ![c] =
                 IF o = "ok" THEN Return(c, rq, [success |-> TRUE, id |-> id])
                 ELSE Throw(c, rq)]
    /\ UNCHANGED <<frame, written>>

deleteSlotHandler(c) ==
    \/ deleteSlot_Enter(c) /\ UNCHANGED resp
    \/ deleteSlot_GetToken(c)
    \/ deleteSlot_Delete(c)

-----------------------------------------------------------------------------
(* add-exercise-to-routine.ts *)

SetsMin == 1
SetsMax == 10
RepsMin == 1
RepsMax == 100
CommentMax == 100

AddExerciseArgs ==
    [routineId : {Some(1), Some(2)}, exerciseId : {Some(12)}, sets : {3}, reps : {10},
     weight : {None, Some(0)}, dayName : {None, Some(Empty), Some(NameA)},
     comment : {None}]
    \cup {[routineId |-> Some(1), exerciseId |-> Some(12), sets |-> SetsMax + 1,
           reps |-> 10, weight |-> None, dayName |-> None, comment |-> None]}

\* the input schema, as the tool declares it (inputSchema)
AddExerciseToRoutineSchema(a) ==
    /\ IsSome(a.routineId) /\ IsSome(a.exerciseId)
    /\ a.sets >= SetsMin /\ a.sets <= SetsMax
    /\ a.reps >= RepsMin /\ a.reps <= RepsMax
    /\ IsSome(a.weight) => a.weight[1] >= 0
    /\ IsSome(a.comment) => a.comment[1].len <= CommentMax

AddExLoc0 == [existingCount |-> 0, day |-> 0, slot |-> 0, entry |-> 0,
              setsConfigId |-> 0, repsConfigId |-> 0]

\* dayName || 'Workout Day': an empty dayName counts as none
dayNameToUse(input) == OrFallback(input.dayName, WorkoutDay)

RECURSIVE FilterRoutine(_, _)
FilterRoutine(results, rid) ==
    IF results = <<>> THEN <<>>
    ELSE (IF Head(results).routine = rid THEN <<Head(results)>> ELSE <<>>)
         \o FilterRoutine(Tail(results), rid)

\* a lookup that compares the description, not the name
FindByDescription(days, name) ==
    LET hits == {i \in 1..Len(days) : days[i].description = name} IN
    IF hits = {} THEN None
    ELSE Some(days[CHOOSE i \in hits : \A j \in hits : i <= j])

\* Array.prototype.find: the first element whose name is the wanted one
FindByName(days, name) ==
    LET hits == {i \in 1..Len(days) : days[i].name = name} IN
    IF hits = {} THEN None
    ELSE Some(days[CHOOSE i \in hits : \A j \in hits : i <= j])

\* a resolver that disregards the days listed
existingDaysOfNone(results, input) == <<>>

\* results.map(parse).filter((d) => d.routine === routineId)
existingDaysOf(results, input) == FilterRoutine(results, input.routineId[1])

\* the body of the day creation, for existingDays.length = n
NewDayBody(input, n) ==
    [routine |-> input.routineId[1], name |-> Some(dayNameToUse(input)),
     is_rest |-> Some(FALSE), order |-> n + 1, description |-> None]

\* a catch that raises a new error in place of the one caught
addExercise_Wrap(c, rq) ==
    [call[c] EXCEPT !.reqs = Append(@, rq), !.pc = "done", !.err = "Error"]

\* catch (error) { logger.error(...); throw error; }
addExercise_Catch(c, rq) == Throw(c, rq)

addExercise_Enter(c) ==
    \E a \in AddExerciseArgs :
        Enter(c, "addExercise", a, AddExerciseToRoutineSchema(a), "ValidationError",
              AddExLoc0)

addExercise_GetToken(c) ==
    GetToken(c, "addExercise",
        [o \in TokenOutcomes |->
            IF o = "ok" THEN Go(c, TokenReq(o), "getDays", call[c].loc)
            ELSE addExercise_Catch(c, TokenReq(o))])

\* Step 1: find the day, or go on to create it
addExercise_GetDays(c) ==
    /\ At(c, "addExercise", "getDays")
    /\ \E o \in Outcomes(TRUE) :
          /\ failures' = Charge(TRUE, o)
          /\ LET rq == Req("GET", "day", 0, o) IN
             IF o # "ok" THEN call' = [call EXCEPT ![c] = addExercise_Catch(c, rq)]
             ELSE \E results \in DayResults(store, call[c].args.routineId[1]) :
                    LET existingDays == existingDaysOf(results, call[c].args)
                        existingDay == FindByName(existingDays, dayNameToUse(call[c].args))
                    IN call' = [call EXCEPT ![c] =
                          IF IsSome(existingDay)
                          THEN Go(c, rq, "postSlot", [call[c].loc EXCEPT !.day = existingDay[1].id])
                          ELSE Go(c, rq, "postDay",
                                  [call[c].loc EXCEPT !.existingCount = Len(existingDays)])]
    /\ UNCHANGED <<store, frame, written, gone>>

addExercise_PostDay(c) ==
    /\ At(c, "addExercise", "postDay")
    /\ LET body == NewDayBody(call[c].args, call[c].loc.existingCount)
           ok == CanPostDay(store, body) IN
       \E o \in Outcomes(ok) :
          /\ failures' = Charge(ok, o)
          /\ store' = IF ok /\ Applied(o) THEN PostDay(store, body) ELSE store
          /\ LET rq == Req("POST", "day", 0, o) IN
             call' = [call EXCEPT ![c] =
                 IF o = "ok"
                 THEN Go(c, rq, "postSlot", [call[c].loc EXCEPT !.day = NewDay(store, body).id])
                 ELSE addExercise_Catch(c, rq)]
    /\ UNCHANGED <<frame, written, gone>>

\* a slot appended behind another
SlotBodySecond(loc) == [day |-> loc.day, order |-> 2]

\* the body of the slot creation: { day: day.id, order: 1 }
SlotBody(loc) == [day |-> loc.day, order |-> 1]

\* Step 2: always a new slot, order 1
addExercise_PostSlot(c) ==
    /\ At(c, "addExercise", "postSlot")
    /\ LET body == SlotBody(call[c].loc)
           ok == CanPostSlot(store, body) IN
       \E o \in Outcomes(ok) :
          /\ failures' = Charge(ok, o)
          /\ store' = IF ok /\ Applied(o) THEN PostSlot(store, body) ELSE store
          /\ LET rq == Req("POST", "slot", 0, o) IN
             call' = [call EXCEPT ![c] =
                 IF o = "ok"
                 THEN Go(c, rq, "postEntry", [call[c].loc EXCEPT !.slot = NewSlot(store, body).id])
                 ELSE addExercise_Catch(c, rq)]
    /\ UNCHANGED <<frame, written, gone>>

\* an entry linked by the id of the day in place of the id of the slot
EntryBodyUnderDay(input, loc) ==
    [slot |-> loc.day, exercise |-> input.exerciseId[1],
     order |-> 1, comment |-> OrFallback(input.comment, Empty)]

\* the body of the slot entry creation:
\* { slot: slot.id, exercise: exerciseId, order: 1, comment: comment || '' }
EntryBody(input, loc) ==
    [slot |-> loc.slot, exercise |-> input.exerciseId[1],
     order |-> 1, comment |-> OrFallback(input.comment, Empty)]

\* Step 3: the slot entry
addExercise_PostEntry(c) ==
    /\ At(c, "addExercise", "postEntry")
    /\ LET body == EntryBody(call[c].args, call[c].loc)
           ok == CanPostEntry(store, body) IN
       \E o \in Outcomes(ok) :
          /\ failures' = Charge(ok, o)
          /\ store' = IF ok /\ Applied(o) THEN PostEntry(store, body) ELSE store
          /\ written' = IF ok /\ Applied(o)
                        THEN (NewEntry(store, body).id :> NoWrites) @@ written
                        ELSE written
          /\ LET rq == Req("POST", "slot-entry", 0, o) IN
             call' = [call EXCEPT ![c] =
                 IF o = "ok"
                 THEN Go(c, rq, "postSets", [call[c].loc EXCEPT !.entry = NewEntry(store, body).id])
                 ELSE addExercise_Catch(c, rq)]
    /\ UNCHANGED <<frame, gone>>

\* the value a config of kind k carries for the number v
CfgValue(k, v) == IF k = "weight" THEN NumToString(v) ELSE v

\* if (weight): a weight of 0 counts as none
HasWeightTruthy(input) == IsSome(input.weight) /\ input.weight[1] # 0

\* if (weight !== undefined)
HasWeight(input) == IsSome(input.weight)

\* the invocation after the config of kind k was created with id
AfterAddCfg(c, rq, k, id) ==
    LET input == call[c].args
        loc == call[c].loc
        result(w) == [id |-> loc.entry, slot |-> loc.slot,
                      exercise |-> input.exerciseId[1], order |-> 1,
                      comment |-> OrFallback(input.comment, Empty),
                      setsConfigId |-> loc.setsConfigId,
                      repsConfigId |-> IF k = "reps" THEN id ELSE loc.repsConfigId,
                      weightConfigId |-> w]
    IN IF k = "sets" THEN Go(c, rq, "postReps", [loc EXCEPT !.setsConfigId = id])
       ELSE IF k = "reps"
            THEN (IF HasWeight(input)
                  THEN Go(c, rq, "postWeight", [loc EXCEPT !.repsConfigId = id])
                  ELSE Return(c, rq, result(None)))
            ELSE Return(c, rq, result(Some(id)))

\* Steps 4-6: one config per metric, sets, reps, then weight if given
addExercise_PostCfg(c, k, pc, v) ==
    /\ At(c, "addExercise", pc)
    /\ LET body == [slot_entry |-> call[c].loc.entry, iteration |-> 1,
                    value |-> CfgValue(k, v)]
           ok == CanPostCfg(store, body) IN
       \E o \in Outcomes(ok) :
          /\ failures' = Charge(ok, o)
          /\ store' = IF ok /\ Applied(o) THEN PostCfg(store, k, body) ELSE store
          /\ written' = IF ok /\ Applied(o)
                        THEN [written EXCEPT ![body.slot_entry][k] = Some(v)]
                        ELSE written
          /\ LET rq == Req("POST", k, 0, o) IN
             call' = [call EXCEPT ![c] =
                 IF o = "ok" THEN AfterAddCfg(c, rq, k, NewCfg(store, k, body).id)
                 ELSE addExercise_Catch(c, rq)]
    /\ UNCHANGED <<frame, gone>>

addExercise_PostSets(c) == addExercise_PostCfg(c, "sets", "postSets", call[c].args.sets)
addExercise_PostReps(c) == addExercise_PostCfg(c, "reps", "postReps", call[c].args.reps)
addExercise_PostWeight(c) ==
    addExercise_PostCfg(c, "weight", "postWeight", OrElse(call[c].args.weight, 0))

addExerciseToRoutineHandler(c) ==
    \/ addExercise_Enter(c) /\ UNCHANGED resp
    \/ addExercise_GetToken(c)
    \/ addExercise_GetDays(c)
    \/ addExercise_PostDay(c)
    \/ addExercise_PostSlot(c)
    \/ addExercise_PostEntry(c)
    \/ addExercise_PostSets(c)
    \/ addExercise_PostReps(c)
    \/ addExercise_PostWeight(c)

-----------------------------------------------------------------------------
(* update-exercise.ts *)

UpdateExerciseArgs ==
    [slotEntryId : {Some(1), Some(3)}, sets : {None, Some(4)}, reps : {None, Some(12)},
     weight : {None, Some(50)}]
    \cup {[slotEntryId |-> None, sets |-> None, reps |-> None, weight |-> None]}
UpdateExerciseSchema(a) == IsSome(a.slotEntryId)

\* a handler that stops after the first metric the input supplies
NextKindOnce(input, i) ==
    LET later == {j \in (i + 1)..Len(Kinds) : IsSome(input[Kinds[j]])} IN
    IF later = {} \/ i > 0 THEN 0 ELSE CHOOSE j \in later : \A m \in later : j <= m

\* the first metric after position i (sets, reps, weight) the input supplies
NextKind(input, i) ==
    LET later == {j \in (i + 1)..Len(Kinds) : IsSome(input[Kinds[j]])} IN
    IF later = {} THEN 0 ELSE CHOOSE j \in later : \A m \in later : j <= m

Label(k, what) == k \o " (" \o what \o ")"

\* the invocation after the metrics up to position i are handled
AfterKind(c, rq, i, updates) ==
    LET n == NextKind(call[c].args, i) IN
    IF n = 0 THEN Return(c, rq, [success |-> TRUE, updates |-> updates])
    ELSE Go(c, rq, "getCfg", [k |-> n, found |-> 0, updates |-> updates])

updateExercise_Enter(c) ==
    \E a \in UpdateExerciseArgs :
        Enter(c, "updateExercise", a, UpdateExerciseSchema(a), "ZodError",
              [k |-> 0, found |-> 0, updates |-> <<>>])

updateExercise_GetToken(c) ==
    GetToken(c, "updateExercise",
        [o \in TokenOutcomes |->
            IF o = "ok" THEN AfterKind(c, TokenReq(o), 0, <<>>)
            ELSE Throw(c, TokenReq(o))])

\* an off-by-one test for an existing config
HasSeveral(results) == Len(results) > 1

\* setsRes.results.length > 0
HasExisting(results) == Len(results) > 0

\* find the existing config of the metric
updateExercise_GetCfg(c) ==
    /\ At(c, "updateExercise", "getCfg")
    /\ LET k == Kinds[call[c].loc.k] IN
       \E o \in Outcomes(TRUE) :
          /\ failures' = Charge(TRUE, o)
          /\ LET rq == Req("GET", k, 0, o) IN
             IF o # "ok" THEN call' = [call EXCEPT ![c] = Throw(c, rq)]
             ELSE \E results \in Perms(ListCfg(store, k, call[c].args.slotEntryId[1])) :
                    call' = [call EXCEPT ![c] =
                        IF HasExisting(results)
                        THEN Go(c, rq, "patchCfg", [call[c].loc EXCEPT !.found = results[1].id])
                        ELSE Go(c, rq, "postCfg", call[c].loc)]
    /\ UNCHANGED <<store, frame, written, gone>>

\* the config the update of metric k patches, given the one found first
PatchTarget(k, found) == [coll |-> k, id |-> found]

\* update the existing config
updateExercise_PatchCfg(c) ==
    /\ At(c, "updateExercise", "patchCfg")
    /\ LET i == call[c].loc.k
           k == Kinds[i]
           t == PatchTarget(k, call[c].loc.found)
           body == [value |-> CfgValue(k, call[c].args[k][1])]
           ok == HasId(store[t.coll], t.id) IN
       \E o \in Outcomes(ok) :
          /\ failures' = Charge(ok, o)
          /\ store' = IF ok /\ Applied(o) THEN PatchCfg(store, t.coll, t.id, body) ELSE store
          /\ written' = IF ok /\ Applied(o)
                        THEN [written EXCEPT
                                ![ById(store[t.coll], t.id).slot_entry][t.coll] =
                                    Some(call[c].args[k][1])]
                        ELSE written
          /\ LET rq == Req("PATCH", t.coll, t.id, o) IN
             call' = [call EXCEPT ![c] =
                 IF o = "ok"
                 THEN AfterKind(c, rq, i, Append(call[c].loc.updates, Label(k, "updated")))
                 ELSE Throw(c, rq)]
    /\ UNCHANGED <<frame, gone>>

\* create the config
updateExercise_PostCfg(c) ==
    /\ At(c, "updateExercise", "postCfg")
    /\ LET i == call[c].loc.k
           k == Kinds[i]
           body == [slot_entry |-> call[c].args.slotEntryId[1], iteration |-> 1,
                    value |-> CfgValue(k, call[c].args[k][1])]
           ok == CanPostCfg(store, body) IN
       \E o \in Outcomes(ok) :
          /\ failures' = Charge(ok, o)
          /\ store' = IF ok /\ Applied(o) THEN PostCfg(store, k, body) ELSE store
          /\ written' = IF ok /\ Applied(o)
                        THEN [written EXCEPT ![body.slot_entry][k] = Some(call[c].args[k][1])]
                        ELSE written
          /\ LET rq == Req("POST", k, 0, o) IN
             call' = [call EXCEPT ![c] =
                 IF o = "ok"
                 THEN AfterKind(c, rq, i, Append(call[c].loc.updates, Label(k, "created")))
                 ELSE Throw(c, rq)]
    /\ UNCHANGED <<frame, gone>>

updateExerciseInRoutineHandler(c) ==
    \/ updateExercise_Enter(c) /\ UNCHANGED resp
    \/ updateExercise_GetToken(c)
    \/ updateExercise_GetCfg(c)
    \/ updateExercise_PatchCfg(c)
    \/ updateExercise_PostCfg(c)

-----------------------------------------------------------------------------
(* delete-slot.ts: getRoutineDetailsHandler *)

GetRoutineDetailsArgs == {[routineId |-> Some(1)], [routineId |-> Some(2)], [routineId |-> None]}
GetRoutineDetailsSchema(a) == IsSome(a.routineId)

\* a comparator by id
InsertById(x, s) ==
    LET k == Cardinality({i \in 1..Len(s) : s[i].id <= x.id}) IN
    SubSeq(s, 1, k) \o <<x>> \o SubSeq(s, k + 1, Len(s))

\* Array.prototype.sort((a, b) => a.order - b.order): stable, ascending
InsertByOrder(x, s) ==
    LET k == Cardinality({i \in 1..Len(s) : s[i].order <= x.order}) IN
    SubSeq(s, 1, k) \o <<x>> \o SubSeq(s, k + 1, Len(s))
RECURSIVE SortByOrder(_)
SortByOrder(s) ==
    IF s = <<>> THEN <<>>
    ELSE InsertByOrder(s[Len(s)], SortByOrder(SubSeq(s, 1, Len(s) - 1)))

\* the days as listed, whatever their routine
daysOfAnyRoutine(results, routineId) == SortByOrder(results)

\* step 2: the days of the routine, out of what the list returned
daysOf(results, routineId) == SortByOrder(FilterRoutine(results, routineId))

\* all sequences whose i-th element is drawn from the i-th set
RECURSIVE SeqProd(_)
SeqProd(ss) ==
    IF ss = <<>> THEN {<<>>}
    ELSE {<<x>> \o t : x \in Head(ss), t \in SeqProd(Tail(ss))}

\* results[0]?.value over the orders a list of configs may come in
FirstValue(S) == IF S = {} THEN {None} ELSE {Some(g.value) : g \in S}

\* sets read from the repetitions list
EntryFieldsMixed == [sets |-> "reps", reps |-> "reps", weight |-> "weight"]

\* the metric whose config list feeds each field of a populated entry
EntryFields == [sets |-> "sets", reps |-> "reps", weight |-> "weight"]

populatedEntry(st, entry) ==
    {[id |-> entry.id, slot |-> entry.slot, exercise |-> entry.exercise,
      order |-> entry.order, comment |-> entry.comment,
      sets |-> s, reps |-> r, weight |-> w] :
        s \in FirstValue(ListCfg(st, EntryFields.sets, entry.id)),
        r \in FirstValue(ListCfg(st, EntryFields.reps, entry.id)),
        w \in FirstValue(ListCfg(st, EntryFields.weight, entry.id))}

\* what a list endpoint answers to a filtered GET: the matching records, or,
\* where the endpoint ignores the filter, the whole collection, in any order
Listed(matching, all, ep) ==
    IF ep = "filtering" THEN Perms(matching) ELSE Perms(matching) \cup Perms(all)

populatedSlotVia(st, slot, ep) ==
    UNION {
        LET entries == SortByOrder(results) IN
        {[id |-> slot.id, day |-> slot.day, order |-> slot.order, entries |-> pe] :
            pe \in SeqProd([i \in 1..Len(entries) |-> populatedEntry(st, entries[i])])}
        : results \in Listed(ListEntries(st, slot.id), st.entries, ep)}

populatedSlot(st, slot) == populatedSlotVia(st, slot, "filtering")

populatedDayVia(st, day, ep) ==
    UNION {
        LET slots == SortByOrder(results) IN
        {[id |-> day.id, routine |-> day.routine, order |-> day.order, name |-> day.name,
          description |-> day.description, is_rest |-> day.is_rest, slots |-> ps] :
            ps \in SeqProd([i \in 1..Len(slots) |-> populatedSlotVia(st, slots[i], ep)])}
        : results \in Listed(ListSlots(st, day.id), st.slots, ep)}

populatedDay(st, day) == populatedDayVia(st, day, "filtering")

populatedDaysVia(st, days, ep) ==
    SeqProd([i \in 1..Len(days) |-> populatedDayVia(st, days[i], ep)])

populatedDays(st, days) == populatedDaysVia(st, days, "filtering")

getRoutineDetails_Enter(c) ==
    \E a \in GetRoutineDetailsArgs :
        Enter(c, "getRoutineDetails", a, GetRoutineDetailsSchema(a), "ZodError",
              [results |-> <<>>, days |-> <<>>])

getRoutineDetails_GetToken(c) ==
    GetToken(c, "getRoutineDetails",
        [o \in TokenOutcomes |->
            IF o = "ok" THEN Go(c, TokenReq(o), "getRoutine", call[c].loc)
            ELSE Throw(c, TokenReq(o))])

\* 1. fetch the routine
getRoutineDetails_GetRoutine(c) ==
    /\ At(c, "getRoutineDetails", "getRoutine")
    /\ LET id == call[c].args.routineId[1]
           ok == id \in store.routines IN
       \E o \in Outcomes(ok) :
          /\ failures' = Charge(ok, o)
          /\ LET rq == Req("GET", "routine", id, o) IN
             call' = [call EXCEPT ![c] =
                 IF o = "ok" THEN Go(c, rq, "getDays", call[c].loc) ELSE Throw(c, rq)]
    /\ UNCHANGED <<store, frame, written, gone>>

\* 2. fetch the days
getRoutineDetails_GetDays(c) ==
    /\ At(c, "getRoutineDetails", "getDays")
    /\ \E o \in Outcomes(TRUE) :
          /\ failures' = Charge(TRUE, o)
          /\ LET rq == Req("GET", "day", 0, o) IN
             IF o # "ok" THEN call' = [call EXCEPT ![c] = Throw(c, rq)]
             ELSE \E results \in DayResults(store, call[c].args.routineId[1]) :
                    call' = [call EXCEPT ![c] =
                        Go(c, rq, "fanOut",
                           [results |-> results,
                            days |-> daysOf(results, call[c].args.routineId[1])])]
    /\ UNCHANGED <<store, frame, written, gone>>

\* 3. slots, entries and configs of every day, the list endpoints being ep
getRoutineDetails_FanOutVia(c, ep) ==
    /\ At(c, "getRoutineDetails", "fanOut")
    /\ LET days == call[c].loc.days IN
       \E o \in Outcomes(TRUE) :
          /\ o # "ok" => days # <<>>
          /\ failures' = Charge(TRUE, o)
          /\ LET rq == Req("GET", "slot", 0, o) IN
             IF o # "ok" THEN call' = [call EXCEPT ![c] = Throw(c, rq)]
             ELSE \E pd \in populatedDaysVia(store, days, ep) :
                    call' = [call EXCEPT ![c] =
                        Return(c, rq, [id |-> call[c].args.routineId[1], days |-> pd])]
    /\ UNCHANGED <<store, frame, written, gone>>

\* the slot and slot-entry endpoints honour their filters
getRoutineDetails_FanOut(c) == getRoutineDetails_FanOutVia(c, "filtering")

getRoutineDetailsHandler(c) ==
    \/ getRoutineDetails_Enter(c) /\ UNCHANGED resp
    \/ getRoutineDetails_GetToken(c)
    \/ getRoutineDetails_GetRoutine(c)
    \/ getRoutineDetails_GetDays(c)
    \/ getRoutineDetails_FanOut(c)

\* the slot and slot-entry endpoints may ignore their filters, as the day
\* endpoint may
getRoutineDetails_FanOutAny(c) == getRoutineDetails_FanOutVia(c, "any")

getRoutineDetailsAnyList(c) ==
    \/ getRoutineDetails_Enter(c) /\ UNCHANGED resp
    \/ getRoutineDetails_GetToken(c)
    \/ getRoutineDetails_GetRoutine(c)
    \/ getRoutineDetails_GetDays(c)
    \/ getRoutineDetails_FanOutAny(c)

\* the fan-out of step 3 read by read: every read of a Promise.all is
\* outstanding on its own and they are answered in any order

\* results in the order in which the branches settled
JoinOrderSettled(days, settled) ==
    [i \in 1..Len(settled) |->
        CHOOSE d \in {days[j] : j \in 1..Len(days)} : d.id = settled[i]]

\* Promise.all: the results keep the order of the promises given
JoinOrder(days, settled) == days

Read(coll, of) == [coll |-> coll, of |-> of]

\* a read sent as a creation
FanReqPost(coll, id) == Req("POST", coll, id, "sent")

\* wgerClient.get(...): a read of the fan-out, sent and not yet answered
FanReq(coll, id) == Req("GET", coll, id, "sent")

\* the responses received so far
SlotsGot(loc, dayId) == (CHOOSE g \in loc.slots : g.of = dayId).val
EntriesGot(loc, slotId) == (CHOOSE g \in loc.entries : g.of = slotId).val
CfgGot(loc, entryId, k) == (CHOOSE g \in loc.cfg : g.of = entryId /\ g.k = k).val

\* the async function of a day has returned
DaySettled(loc, dayId) ==
    \E g \in loc.slots :
        /\ g.of = dayId
        /\ \A i \in 1..Len(g.val) :
              \E h \in loc.entries :
                  /\ h.of = g.val[i].id
                  /\ \A j \in 1..Len(h.val) : \A k \in KindSet :
                        \E x \in loc.cfg : x.of = h.val[j].id /\ x.k = k

\* the day branches in the order in which they settled
SettledNow(loc) ==
    LET new == {d \in {loc.days[i].id : i \in 1..Len(loc.days)} :
                   /\ DaySettled(loc, d)
                   /\ \A i \in 1..Len(loc.settled) : loc.settled[i] # d}
    IN IF new = {} THEN loc.settled ELSE Append(loc.settled, CHOOSE d \in new : TRUE)

fanEntry(loc, entry) ==
    [id |-> entry.id, slot |-> entry.slot, exercise |-> entry.exercise,
     order |-> entry.order, comment |-> entry.comment,
     sets |-> CfgGot(loc, entry.id, EntryFields.sets),
     reps |-> CfgGot(loc, entry.id, EntryFields.reps),
     weight |-> CfgGot(loc, entry.id, EntryFields.weight)]

fanSlot(loc, slot) ==
    LET entries == EntriesGot(loc, slot.id) IN
    [id |-> slot.id, day |-> slot.day, order |-> slot.order,
     entries |-> [j \in 1..Len(entries) |-> fanEntry(loc, entries[j])]]

fanDay(loc, day) ==
    LET slots == SlotsGot(loc, day.id) IN
    [id |-> day.id, routine |-> day.routine, order |-> day.order, name |-> day.name,
     description |-> day.description, is_rest |-> day.is_rest,
     slots |-> [j \in 1..Len(slots) |-> fanSlot(loc, slots[j])]]

\* return { ...routine, days: populatedDays }
fanTree(routineId, loc) ==
    LET days == JoinOrder(loc.days, loc.settled) IN
    [id |-> routineId, days |-> [i \in 1..Len(days) |-> fanDay(loc, days[i])]]

\* the invocation once a read was answered: the reads it leads to are issued,
\* and the handler returns when the last one is in
FanAnswered(q, r, loc1, children) ==
    LET loc2 == [loc1 EXCEPT !.open = (@ \ {r}) \cup {Read(x.coll, x.id) : x \in
                                        {children[i] : i \in 1..Len(children)}},
                             !.late = IF q.pc = "done"
                                      THEN @ \cup {Read(x.coll, x.id) : x \in
                                               {children[i] : i \in 1..Len(children)}}
                                      ELSE @]
        loc3 == [loc2 EXCEPT !.settled = SettledNow(loc2)]
        q1 == [q EXCEPT !.loc = loc3, !.reqs = @ \o children]
    IN IF q.pc = "reads" /\ loc3.open = {}
       THEN [q1 EXCEPT !.pc = "done", !.ret = fanTree(q.args.routineId[1], loc3)]
       ELSE q1

\* the invocation once a read has failed: Promise.all rejects and the handler
\* rethrows; the reads of the other branches stay outstanding
\* a catch that answers with an empty tree
FanFailedEmptyTree(q, r, o) ==
    [q EXCEPT !.loc.open = @ \ {r},
              !.loc.failed = Append(@, [coll |-> r.coll, of |-> r.of, out |-> o]),
              !.pc = "done", !.err = IF q.pc = "reads" THEN o ELSE @,
              !.ret = [id |-> q.args.routineId[1], days |-> <<>>]]

FanFailed(q, r, o) ==
    [q EXCEPT !.loc.open = @ \ {r},
              !.loc.failed = Append(@, [coll |-> r.coll, of |-> r.of, out |-> o]),
              !.pc = "done", !.err = IF q.pc = "reads" THEN o ELSE @]

\* the handler is at its joint await, or has rethrown with reads outstanding
Reading(c, r) ==
    /\ call[c].op = "getRoutineDetails"
    /\ \/ call[c].pc = "reads"
       \/ call[c].pc = "done" /\ call[c].err # "" /\ "open" \in DOMAIN call[c].loc
    /\ r \in call[c].loc.open

\* days.map(async (day) => ...): the slot reads of all days are issued
getRoutineDetails_Spawn(c) ==
    /\ At(c, "getRoutineDetails", "fanOut")
    /\ LET days == call[c].loc.days
           loc == [results |-> call[c].loc.results, days |-> days,
                   open |-> {Read("slot", days[i].id) : i \in 1..Len(days)},
                   slots |-> {}, entries |-> {}, cfg |-> {},
                   late |-> {}, failed |-> <<>>, settled |-> <<>>]
           issued == [i \in 1..Len(days) |-> FanReq("slot", days[i].id)]
       IN call' = [call EXCEPT ![c] =
              IF days = <<>>
              THEN [@ EXCEPT !.loc = loc, !.pc = "done",
                             !.ret = fanTree(call[c].args.routineId[1], loc)]
              ELSE [@ EXCEPT !.loc = loc, !.pc = "reads", !.reqs = @ \o issued]]
    /\ UNCHANGED <<store, frame, failures, written, gone>>

\* the slots of a day arrive
getRoutineDetails_ReadSlots(c) ==
    \E dayId \in {d.id : d \in store.days} :
        LET r == Read("slot", dayId) IN
        /\ Reading(c, r)
        /\ \E o \in Outcomes(TRUE) :
              /\ failures' = Charge(TRUE, o)
              /\ IF o # "ok" THEN call' = [call EXCEPT ![c] = FanFailed(call[c], r, o)]
                 ELSE \E results \in Perms(ListSlots(store, dayId)) :
                        LET slots == SortByOrder(results)
                            loc1 == [call[c].loc EXCEPT
                                        !.slots = @ \cup {[of |-> dayId, val |-> slots]}]
                            children == [j \in 1..Len(slots) |->
                                            FanReq("slot-entry", slots[j].id)]
                        IN call' = [call EXCEPT ![c] = FanAnswered(call[c], r, loc1, children)]
        /\ UNCHANGED <<store, frame, written, gone>>

\* the entries of a slot arrive
getRoutineDetails_ReadEntries(c) ==
    \E slotId \in {x.id : x \in store.slots} :
        LET r == Read("slot-entry", slotId) IN
        /\ Reading(c, r)
        /\ \E o \in Outcomes(TRUE) :
              /\ failures' = Charge(TRUE, o)
              /\ IF o # "ok" THEN call' = [call EXCEPT ![c] = FanFailed(call[c], r, o)]
                 ELSE \E results \in Perms(ListEntries(store, slotId)) :
                        LET entries == SortByOrder(results)
                            loc1 == [call[c].loc EXCEPT
                                        !.entries = @ \cup {[of |-> slotId, val |-> entries]}]
                            children == [j \in 1..(3 * Len(entries)) |->
                                            FanReq(Kinds[((j - 1) % 3) + 1],
                                                   entries[((j - 1) \div 3) + 1].id)]
                        IN call' = [call EXCEPT ![c] = FanAnswered(call[c], r, loc1, children)]
        /\ UNCHANGED <<store, frame, written, gone>>

\* one of the three config lists of an entry arrives
getRoutineDetails_ReadConfig(c) ==
    \E entryId \in {x.id : x \in store.entries}, k \in KindSet :
        LET r == Read(k, entryId) IN
        /\ Reading(c, r)
        /\ \E o \in Outcomes(TRUE) :
              /\ failures' = Charge(TRUE, o)
              /\ IF o # "ok" THEN call' = [call EXCEPT ![c] = FanFailed(call[c], r, o)]
                 ELSE \E v \in FirstValue(ListCfg(store, k, entryId)) :
                        LET loc1 == [call[c].loc EXCEPT
                                        !.cfg = @ \cup {[of |-> entryId, k |-> k, val |-> v]}]
                        IN call' = [call EXCEPT ![c] = FanAnswered(call[c], r, loc1, <<>>)]
        /\ UNCHANGED <<store, frame, written, gone>>

\* the handler with its fan-out read by read
getRoutineDetailsByRead(c) ==
    \/ getRoutineDetails_Enter(c) /\ UNCHANGED resp
    \/ getRoutineDetails_GetToken(c)
    \/ getRoutineDetails_GetRoutine(c)
    \/ getRoutineDetails_GetDays(c)
    \/ getRoutineDetails_Spawn(c)
    \/ getRoutineDetails_ReadSlots(c)
    \/ getRoutineDetails_ReadEntries(c)
    \/ getRoutineDetails_ReadConfig(c)

-----------------------------------------------------------------------------
(* server.ts *)

\* the tools createServer registers, each with its handler; "external" is a
\* handler of a module other than the routine tools
createServer ==
    [list_categories |-> "external", list_muscles |-> "external",
     list_equipment |-> "external", search_exercises |-> "external",
     get_exercise_details |-> "external",
     create_workout |-> "external",
     add_exercise_to_routine |-> "addExercise",
     get_user_routines |-> "external",
     get_routine_details |-> "getRoutineDetails",
     add_day_to_routine |-> "addDay",
     update_day |-> "updateDay",
     delete_day |-> "deleteDay",
     update_exercise_in_routine |-> "updateExercise",
     diagnose |-> "external"]

\* this.tools.get(toolName) is defined
HasTool(toolName) == toolName \in DOMAIN createServer

\* README, Workout Management: the tools listed as available
ReadmeWorkoutTools ==
    {"create_workout", "get_routine_details", "add_day_to_routine", "update_day",
     "delete_day", "add_exercise_to_routine", "update_exercise_in_routine",
     "delete_slot", "get_user_routines"}

\* the names a client sends: the listed tools, and one that is no tool
RequestNames == ReadmeWorkoutTools \cup {"no_such_tool"}

UnknownTool(toolName) == "Unknown tool: " \o toolName

\* getUserFriendlyMessage(error)
getUserFriendlyMessage(err) == "message for " \o err

Pending(toolName) ==
    [name |-> toolName, state |-> "pending", isError |-> FALSE, text |-> ""]
Responded(toolName, isError, text) ==
    [name |-> toolName, state |-> "responded", isError |-> isError, text |-> text]

\* a boundary that reports only remote errors as errors
CallToolResultRemoteOnly(toolName, q) ==
    IF q.err \in RemoteErrors
    THEN Responded(toolName, TRUE, "Error: " \o getUserFriendlyMessage(q.err))
    ELSE Responded(toolName, FALSE, "result")

\* try { result = await tool.handler(args); return {content} }
\* catch (error) { return {content: `Error: ...`, isError: true} }
CallToolResult(toolName, q) ==
    IF q.err = "" THEN Responded(toolName, FALSE, "result")
    ELSE Responded(toolName, TRUE, "Error: " \o getUserFriendlyMessage(q.err))

\* a handler outside the routine tools: it returns or it raises
external_Enter(c) ==
    /\ ~Busy(c)
    /\ ncalls < limit
    /\ ncalls' = ncalls + 1
    /\ prev' = [prev EXCEPT ![c] = Kept(call[c])]
    /\ call' = [call EXCEPT ![c] = [Idle EXCEPT !.op = "external", !.pc = "run", !.pre = store]]
    /\ UNCHANGED <<store, creds, limit, failures, written, gone>>

external_Run(c) ==
    /\ At(c, "external", "run")
    /\ \E err \in {"", "Error"} :
          call' = [call EXCEPT ![c] = [@ EXCEPT !.pc = "done", !.err = err]]
    /\ UNCHANGED <<store, frame, failures, written, gone>>

\* const tool = this.tools.get(toolName); if (!tool) return 'Unknown tool'
callTool_Unknown(c) ==
    \E toolName \in RequestNames :
        /\ ~HasTool(toolName)
        /\ ~Busy(c) /\ resp[c].state # "pending"
        /\ ncalls < limit
        /\ ncalls' = ncalls + 1
        /\ resp' = [resp EXCEPT ![c] = Responded(toolName, TRUE, UnknownTool(toolName))]
        /\ UNCHANGED <<store, creds, call, prev, limit, failures, written, gone>>

\* await tool.handler(args), up to the handler's first await
callTool_Handler(c) ==
    \E toolName \in RequestNames :
        /\ HasTool(toolName)
        /\ resp[c].state # "pending"
        /\ resp' = [resp EXCEPT ![c] = Pending(toolName)]
        /\ LET handler == createServer[toolName] IN
           \/ handler = "addExercise" /\ addExercise_Enter(c)
           \/ handler = "getRoutineDetails" /\ getRoutineDetails_Enter(c)
           \/ handler = "addDay" /\ addDay_Enter(c)
           \/ handler = "updateDay" /\ updateDay_Enter(c)
           \/ handler = "deleteDay" /\ deleteDay_Enter(c)
           \/ handler = "updateExercise" /\ updateExercise_Enter(c)
           \/ handler = "external" /\ external_Enter(c)

\* the handler has settled: the response of call_tool
callTool_Return(c) ==
    /\ resp[c].state = "pending"
    /\ call[c].pc = "done"
    /\ resp' = [resp EXCEPT ![c] = CallToolResult(resp[c].name, call[c])]
    /\ UNCHANGED <<store, creds, call, prev, ncalls, limit, failures, written, gone>>

\* the handlers the server reaches, past their synchronous head
HandlerSteps(c) ==
    \/ addExercise_GetToken(c) \/ addExercise_GetDays(c) \/ addExercise_PostDay(c)
    \/ addExercise_PostSlot(c) \/ addExercise_PostEntry(c) \/ addExercise_PostSets(c)
    \/ addExercise_PostReps(c) \/ addExercise_PostWeight(c)
    \/ getRoutineDetails_GetToken(c) \/ getRoutineDetails_GetRoutine(c)
    \/ getRoutineDetails_GetDays(c) \/ getRoutineDetails_FanOut(c)
    \/ addDay_GetToken(c) \/ addDay_GetDays(c) \/ addDay_PostDay(c)
    \/ updateDay_GetToken(c) \/ updateDay_PatchDay(c)
    \/ deleteDay_GetToken(c) \/ deleteDay_Delete(c)
    \/ updateExercise_GetToken(c) \/ updateExercise_GetCfg(c)
    \/ updateExercise_PatchCfg(c) \/ updateExercise_PostCfg(c)
    \/ external_Run(c)

-----------------------------------------------------------------------------
(* Specifications *)

InitWith(n) ==
    /\ store = SeedStore
    /\ creds \in BOOLEAN
    /\ call = [c \in Callers |-> Idle]
    /\ prev = [c \in Callers |-> Idle]
    /\ ncalls = 0
    /\ limit = n
    /\ failures = 0
    /\ written = SeedWritten
    /\ gone = [slots |-> {}, entries |-> {}]
    /\ resp = [c \in Callers |-> NoRequest]

\* one caller, every tool, one invocation after another
Init == InitWith(MaxCallsAll)
Next ==
    \E c \in Solo :
        \/ addDayToRoutineHandler(c)
        \/ updateDayHandler(c)
        \/ deleteDayHandler(c)
        \/ addExerciseToRoutineHandler(c)
        \/ updateExerciseInRoutineHandler(c)
        \/ deleteSlotHandler(c)
        \/ getRoutineDetailsHandler(c)
Spec == Init /\ [][Next]_vars

\* one caller managing days and reading the routine back
InitDay == InitWith(MaxCalls)
NextDay ==
    \E c \in Solo :
        \/ addDayToRoutineHandler(c)
        \/ updateDayHandler(c)
        \/ deleteDayHandler(c)
        \/ getRoutineDetailsHandler(c)
SpecDay == InitDay /\ [][NextDay]_vars

\* one caller managing exercises and reading the routine back
InitExercise == InitWith(MaxCalls)
NextExercise ==
    \E c \in Solo :
        \/ addExerciseToRoutineHandler(c)
        \/ updateExerciseInRoutineHandler(c)
        \/ deleteSlotHandler(c)
        \/ getRoutineDetailsHandler(c)
SpecExercise == InitExercise /\ [][NextExercise]_vars

\* one client of the server, one call_tool request after another
InitServer == InitWith(MaxCallsAll)
NextServer ==
    \E c \in Solo :
        \/ callTool_Unknown(c)
        \/ callTool_Handler(c)
        \/ HandlerSteps(c)
        \/ callTool_Return(c)
SpecServer == InitServer /\ [][NextServer]_vars

\* one caller adding days and exercises
InitResolve == InitWith(MaxCalls)
NextResolve ==
    \E c \in Solo :
        \/ addDayToRoutineHandler(c)
        \/ addExerciseToRoutineHandler(c)
SpecResolve == InitResolve /\ [][NextResolve]_vars

\* one caller adding days, adding exercises and deleting days
InitOrder == InitWith(MaxCalls)
NextOrder ==
    \E c \in Solo :
        \/ addDayToRoutineHandler(c)
        \/ addExerciseToRoutineHandler(c)
        \/ deleteDayHandler(c)
SpecOrder == InitOrder /\ [][NextOrder]_vars

\* two callers whose day-creating calls overlap
InitRace == InitWith(MaxCalls)
NextRace ==
    \E c \in Callers :
        \/ addDayToRoutineHandler(c)
        \/ addExerciseToRoutineHandler(c)
SpecRace == InitRace /\ [][NextRace]_vars

\* one caller reading routines, the reads of the fan-out in any order
InitTree == InitWith(MaxCallsAll)
NextTree == \E c \in Solo : getRoutineDetailsByRead(c)
SpecTree == InitTree /\ [][NextTree]_vars

\* one caller adding days, updating days and adding exercises
InitRest == InitWith(MaxCalls)
NextRest ==
    \E c \in Solo :
        \/ addDayToRoutineHandler(c)
        \/ updateDayHandler(c)
        \/ addExerciseToRoutineHandler(c)
SpecRest == InitRest /\ [][NextRest]_vars

\* two callers whose updateExerciseInRoutine calls overlap
InitUpsert == InitWith(MaxCalls)
NextUpsert == \E c \in Callers : updateExerciseInRoutineHandler(c)
SpecUpsert == InitUpsert /\ [][NextUpsert]_vars

\* one caller deleting slots and reading routines back from list endpoints
\* that may ignore filters
InitLists == InitWith(MaxCalls)
NextLists ==
    \E c \in Solo :
        \/ deleteSlotHandler(c)
        \/ getRoutineDetailsAnyList(c)
SpecLists == InitLists /\ [][NextLists]_vars

\* one caller adding days and exercises, three calls in a row
InitNames == InitWith(MaxCallsNames)
NextNames ==
    \E c \in Solo :
        \/ addDayToRoutineHandler(c)
        \/ addExerciseToRoutineHandler(c)
SpecNames == InitNames /\ [][NextNames]_vars

-----------------------------------------------------------------------------
(* Properties *)

Done(c, op) == call[c].op = op /\ call[c].pc = "done"
Ok(c, op) == Done(c, op) /\ call[c].err = ""
PrevOk(c, op) == prev[c].op = op /\ prev[c].pc = "done" /\ prev[c].err = ""

NReq(reqs, m, coll) ==
    Cardinality({i \in 1..Len(reqs) : reqs[i].m = m /\ reqs[i].coll = coll})
DaysIn(st, rid) == {d \in st.days : d.routine = rid}
IsSortedByOrder(s) == \A i, j \in 1..Len(s) : i < j => s[i].order <= s[j].order
Range(s) == {s[i] : i \in 1..Len(s)}
TreeSlots(tree) == UNION {Range(d.slots) : d \in Range(tree.days)}
TreeEntries(tree) == UNION {Range(sl.entries) : sl \in TreeSlots(tree)}

\* the day of the slot entry an addExerciseToRoutine call returned
DayOfEntry(e) == ById(store.slots, e.slot).day

\* C1: when a successful addExerciseToRoutine is followed by another with the
\* same routineId and dayName that gets past day resolution, both resolve to
\* the same Day id, and together they issue one POST /day/, or none if the
\* routine had a day of that name before the first.
C1_IdempotentDayResolution ==
    \A c \in Callers :
        LET p == prev[c]
            q == call[c]
        IN (/\ PrevOk(c, "addExercise") /\ q.op = "addExercise"
            /\ p.args.routineId = q.args.routineId /\ p.args.dayName = q.args.dayName
            /\ q.loc.day # 0)
           => /\ DayOfEntry(p.ret) = q.loc.day
              /\ Ok(c, "addExercise") => DayOfEntry(q.ret) = DayOfEntry(p.ret)
              /\ NReq(p.reqs, "POST", "day") + NReq(q.reqs, "POST", "day")
                   = IF \E d \in DaysIn(p.pre, p.args.routineId[1]) :
                            d.name = dayNameToUse(p.args)
                     THEN 0 ELSE 1

C1_Witness ==
    \E c \in Callers :
        /\ PrevOk(c, "addExercise") /\ Ok(c, "addExercise")
        /\ prev[c].args.routineId = call[c].args.routineId
        /\ prev[c].args.dayName = call[c].args.dayName
        /\ NReq(prev[c].reqs, "POST", "day") = 1
        /\ NReq(call[c].reqs, "POST", "day") = 0
        /\ DayOfEntry(call[c].ret) = DayOfEntry(prev[c].ret)
        /\ call[c].ret.id # prev[c].ret.id

\* C2: a successful updateExerciseInRoutine reports, for each metric it was
\* given, "created" when the slot entry had no config of that kind at its
\* start (and then exactly one exists) and "updated" when it had one (and no
\* config is added); so the call after a successful one for the same entry
\* and metric reports "updated".
C2_UpsertReport ==
    \A c \in Callers : Ok(c, "updateExercise") =>
        \A i \in 1..Len(Kinds) :
            LET k == Kinds[i]
                e == call[c].args.slotEntryId[1]
                n0 == Cardinality(ListCfg(call[c].pre, k, e))
                n1 == Cardinality(ListCfg(store, k, e))
                ups == Range(call[c].ret.updates)
            IN IsSome(call[c].args[k]) =>
                /\ n0 = 0 => Label(k, "created") \in ups /\ Label(k, "updated") \notin ups
                             /\ n1 = 1
                /\ n0 > 0 => Label(k, "updated") \in ups /\ Label(k, "created") \notin ups
                             /\ n1 = n0
                /\ (/\ PrevOk(c, "updateExercise")
                    /\ prev[c].args.slotEntryId = call[c].args.slotEntryId
                    /\ IsSome(prev[c].args[k]))
                   => Label(k, "updated") \in ups /\ n1 = n0

C2_Witness ==
    \E c \in Callers :
        /\ PrevOk(c, "updateExercise") /\ Ok(c, "updateExercise")
        /\ prev[c].args.slotEntryId = call[c].args.slotEntryId
        /\ Label("reps", "created") \in Range(prev[c].ret.updates)
        /\ Label("reps", "updated") \in Range(call[c].ret.updates)
        /\ Cardinality(ListCfg(store, "reps", call[c].args.slotEntryId[1])) = 1

\* C3: every entry of a tree getRoutineDetails returns carries, for each
\* metric, the value last written for that entry (the weight as the string
\* of the number), and undefined for a metric never written.
C3_LastWriteWins ==
    \A c \in Callers : Ok(c, "getRoutineDetails") =>
        \A e \in TreeEntries(call[c].ret) :
            /\ e.id \in DOMAIN written
            /\ e.sets = written[e.id].sets
            /\ e.reps = written[e.id].reps
            /\ e.weight = (IF written[e.id].weight = None THEN None
                           ELSE Some(NumToString(written[e.id].weight[1])))

C3_Witness ==
    \E c \in Callers :
        /\ Ok(c, "getRoutineDetails") /\ PrevOk(c, "updateExercise")
        /\ \E e \in TreeEntries(call[c].ret) :
              /\ e.id = prev[c].args.slotEntryId[1]
              /\ e.sets = Some(4) /\ e.reps = None /\ e.weight = Some("50")

\* the tree getRoutineDetails must return right after addExerciseToRoutine
\* built a routine that had no days, the day being named name
RoundTrip(p, tree, name) ==
    /\ Len(tree.days) = 1
    /\ tree.days[1].name = name
    /\ Len(tree.days[1].slots) = 1
    /\ Len(tree.days[1].slots[1].entries) = 1
    /\ LET e == tree.days[1].slots[1].entries[1] IN
          /\ e.exercise = p.args.exerciseId[1]
          /\ e.sets = Some(p.args.sets)
          /\ e.reps = Some(p.args.reps)
          /\ e.weight = (IF IsSome(p.args.weight)
                         THEN Some(NumToString(p.args.weight[1])) ELSE None)

BuiltThenRead(c) ==
    /\ PrevOk(c, "addExercise") /\ Ok(c, "getRoutineDetails")
    /\ call[c].args.routineId = prev[c].args.routineId
    /\ DaysIn(prev[c].pre, prev[c].args.routineId[1]) = {}

\* C4: on a routine with no days, after one successful addExerciseToRoutine
\* with a dayName, getRoutineDetails returns exactly one Day with that name,
\* one Slot in it, and one SlotEntry in that with the exercise, sets, reps and
\* weight written (the weight in its string form).
C4_RoundTrip ==
    \A c \in Callers :
        (BuiltThenRead(c) /\ IsSome(prev[c].args.dayName))
        => RoundTrip(prev[c], call[c].ret, prev[c].args.dayName[1])

\* C5: in every tree getRoutineDetails returns, the days, the slots of each
\* day and the entries of each slot are in ascending order of their order
\* field, whatever order the store listed them in.
C5_TreeSorted ==
    \A c \in Callers : Ok(c, "getRoutineDetails") =>
        /\ IsSortedByOrder(call[c].ret.days)
        /\ \A d \in Range(call[c].ret.days) : IsSortedByOrder(d.slots)
        /\ \A sl \in TreeSlots(call[c].ret) : IsSortedByOrder(sl.entries)

C5_Witness ==
    \E c \in Callers :
        /\ Ok(c, "getRoutineDetails")
        /\ Len(call[c].ret.days) = 3
        /\ ~IsSortedByOrder(FilterRoutine(call[c].loc.results, call[c].args.routineId[1]))
        /\ call[c].loc.results[1].order = 3
        /\ \E d \in Range(call[c].ret.days) :
              /\ Len(d.slots) >= 2 /\ d.slots[1].order < d.slots[Len(d.slots)].order
              /\ \E sl \in Range(d.slots) :
                    Len(sl.entries) >= 2 /\ sl.entries[1].order < sl.entries[2].order

\* C6: a successful addDay on a routine that has N days creates a Day with
\* order N + 1.
C6_AppendOrder ==
    \A c \in Callers : Ok(c, "addDay") =>
        call[c].ret.order = Cardinality(DaysIn(call[c].pre, call[c].args.routineId[1])) + 1

\* C7: a successful updateDay writes exactly the fields it was given: each of
\* description, is_rest and name takes the given value or keeps its stored
\* one, the day's routine and order stay, and no other day changes.
C7_PartialUpdate ==
    \A c \in Callers : Ok(c, "updateDay") =>
        LET id == call[c].args.dayId[1]
            a == call[c].args
            d0 == ById(call[c].pre.days, id)
            d1 == ById(store.days, id)
        IN /\ HasId(store.days, id)
           /\ d1.description = (IF IsSome(a.description) THEN a.description[1] ELSE d0.description)
           /\ d1.is_rest = (IF IsSome(a.is_rest) THEN a.is_rest[1] ELSE d0.is_rest)
           /\ d1.name = (IF IsSome(a.name) THEN a.name[1] ELSE d0.name)
           /\ d1.routine = d0.routine /\ d1.order = d0.order
           /\ {d \in store.days : d.id # id} = {d \in call[c].pre.days : d.id # id}

C7_Witness ==
    \E c \in Callers :
        /\ Ok(c, "updateDay")
        /\ call[c].args.name = Some(NameC) /\ call[c].args.description = None
        /\ call[c].args.is_rest = None
        /\ LET d1 == ById(store.days, call[c].args.dayId[1]) IN
              d1.name = NameC /\ d1.is_rest /\ d1.order = 1

\* C8: deleteSlot issues one request to the store, DELETE /slot/{slotId}/, and
\* once it has succeeded no tree getRoutineDetails returns holds that slot or
\* a slot entry that belonged to it.
C8_SlotCascade ==
    \A c \in Callers :
        /\ Done(c, "deleteSlot") =>
              \A i \in 1..Len(call[c].reqs) :
                  LET r == call[c].reqs[i] IN
                  \/ r.m = "TOKEN" /\ i = 1
                  \/ /\ r.m = "DELETE" /\ r.coll = "slot"
                     /\ r.id = call[c].args.slotId[1] /\ i = 2
        /\ Ok(c, "deleteSlot") => Len(call[c].reqs) = 2
        /\ Ok(c, "getRoutineDetails") =>
              /\ \A sl \in TreeSlots(call[c].ret) : sl.id \notin gone.slots
              /\ \A e \in TreeEntries(call[c].ret) : e.id \notin gone.entries

C8_Witness ==
    \E c \in Callers :
        /\ Ok(c, "getRoutineDetails") /\ PrevOk(c, "deleteSlot")
        /\ prev[c].args.slotId[1] \in gone.slots
        /\ gone.entries # {}
        /\ \E d \in Range(call[c].ret.days) :
              \E s0 \in prev[c].pre.slots : s0.id = prev[c].args.slotId[1] /\ s0.day = d.id

\* the requests of addExerciseToRoutine, in the order it issues them
AddExerciseChain ==
    <<"TOKEN:auth", "GET:day", "POST:day", "POST:slot", "POST:slot-entry",
      "POST:sets", "POST:reps", "POST:weight">>
ReqName(r) == r.m \o ":" \o r.coll
ChainPos(r) == CHOOSE i \in 1..Len(AddExerciseChain) : AddExerciseChain[i] = ReqName(r)
\* reqs follows the chain: strictly forward, skipping at most the optional steps
FollowsChain(reqs) ==
    /\ \A i \in 1..Len(reqs) : \E j \in 1..Len(AddExerciseChain) : AddExerciseChain[j] = ReqName(reqs[i])
    /\ \A i \in 1..(Len(reqs) - 1) : ChainPos(reqs[i]) < ChainPos(reqs[i + 1])

\* C9: when a step of addExerciseToRoutine fails, the handler raises the error
\* of that step, every request before it had succeeded and none follows it,
\* no DELETE was issued, and what the steps before created is still stored.
C9_NoCompensation ==
    \A c \in Callers :
        (Done(c, "addExercise") /\ call[c].reqs # <<>> /\ call[c].err # "") =>
            LET q == call[c]
                n == Len(q.reqs)
            IN /\ q.err = q.reqs[n].out /\ q.err \in RemoteErrors
               /\ \A i \in 1..(n - 1) : q.reqs[i].out = "ok"
               /\ \A i \in 1..n : q.reqs[i].m # "DELETE"
               /\ FollowsChain(q.reqs)
               /\ NReq(q.reqs, "POST", "day") = 1 /\ q.loc.day # 0
                    => HasId(store.days, q.loc.day) /\ ~HasId(q.pre.days, q.loc.day)
               /\ q.loc.slot # 0 => HasId(store.slots, q.loc.slot)
               /\ q.loc.entry # 0 => HasId(store.entries, q.loc.entry)
               /\ q.loc.setsConfigId # 0 => HasId(store.sets, q.loc.setsConfigId)
               /\ q.loc.repsConfigId # 0 => HasId(store.reps, q.loc.repsConfigId)
               /\ q.pre.days \subseteq store.days /\ q.pre.slots \subseteq store.slots
               /\ q.pre.entries \subseteq store.entries

C9_Witness ==
    \E c \in Callers :
        /\ Done(c, "addExercise") /\ call[c].err = "ApiError"
        /\ call[c].reqs[Len(call[c].reqs)].coll = "reps"
        /\ NReq(call[c].reqs, "POST", "day") = 1
        /\ HasId(store.days, call[c].loc.day)
        /\ HasId(store.entries, call[c].loc.entry)
        /\ HasId(store.sets, call[c].loc.setsConfigId)
        /\ ListCfg(store, "reps", call[c].loc.entry) = {}

Tools ==
    {"addDay", "updateDay", "deleteDay", "addExercise", "updateExercise", "deleteSlot",
     "getRoutineDetails"}

\* C10: without credentials every handler ends at once with
\* AuthenticationError, whatever its arguments: no token request, no remote
\* request, and the store as it was.
C10_AuthFailFast ==
    \A c \in Callers :
        (~creds /\ call[c].op \in Tools) =>
            /\ call[c].pc = "done"
            /\ call[c].err = "AuthenticationError"
            /\ call[c].reqs = <<>>
            /\ store = call[c].pre /\ store = SeedStore

C10_Witness ==
    \E c \in Callers :
        /\ ~creds /\ Done(c, "addExercise")
        /\ ~AddExerciseToRoutineSchema(call[c].args)
        /\ call[c].err = "AuthenticationError"

\* the input schema of each tool
SchemaOf(op, a) ==
    CASE op = "addDay" -> AddDaySchema(a)
      [] op = "updateDay" -> UpdateDaySchema(a)
      [] op = "deleteDay" -> DeleteDaySchema(a)
      [] op = "addExercise" -> AddExerciseToRoutineSchema(a)
      [] op = "updateExercise" -> UpdateExerciseSchema(a)
      [] op = "deleteSlot" -> DeleteSlotSchema(a)
      [] op = "getRoutineDetails" -> GetRoutineDetailsSchema(a)

\* C11: with credentials, every handler given arguments that fail its input
\* schema ends at once with an error of kind ValidationError and no remote
\* request.
C11_ValidationFailFast ==
    \A c \in Callers :
        (creds /\ call[c].op \in Tools /\ ~SchemaOf(call[c].op, call[c].args)) =>
            /\ call[c].pc = "done"
            /\ call[c].err = "ValidationError"
            /\ call[c].reqs = <<>>

\* C12: a call_tool request naming a workout-management tool the README lists
\* is dispatched to its handler and never answered with 'Unknown tool'.
C12_ReadmeToolsRegistered ==
    \A c \in Callers :
        (resp[c].state = "responded" /\ resp[c].name \in ReadmeWorkoutTools)
        => resp[c].text # UnknownTool(resp[c].name)

\* the metrics an input supplies, in the order sets, reps, weight
IsSupplied(a, k) == IsSome(a[k])
SuppliedKinds(a) == SelectSeq(Kinds, LAMBDA k : IsSupplied(a, k))

\* C13: a successful updateExerciseInRoutine returns success with one entry
\* of updates per metric supplied and none for the others, in the order sets,
\* reps, weight, labelled "created" where it posted the config and "updated"
\* where it patched one; with no metric supplied the list is empty and the
\* store is not written.
C13_UpdatesList ==
    \A c \in Callers : Ok(c, "updateExercise") =>
        LET q == call[c]
            ks == SuppliedKinds(q.args)
        IN /\ q.ret.success
           /\ Len(q.ret.updates) = Len(ks)
           /\ \A j \in 1..Len(ks) :
                 \/ /\ q.ret.updates[j] = Label(ks[j], "created")
                    /\ NReq(q.reqs, "POST", ks[j]) = 1 /\ NReq(q.reqs, "PATCH", ks[j]) = 0
                 \/ /\ q.ret.updates[j] = Label(ks[j], "updated")
                    /\ NReq(q.reqs, "PATCH", ks[j]) = 1 /\ NReq(q.reqs, "POST", ks[j]) = 0
           /\ \A k \in KindSet : ~IsSupplied(q.args, k) =>
                 NReq(q.reqs, "POST", k) + NReq(q.reqs, "PATCH", k) = 0
           /\ ks = <<>> => /\ q.ret.updates = <<>>
                           /\ Len(q.reqs) = 1
                           /\ store = q.pre

C13_Witness ==
    \E c \in Callers :
        /\ Ok(c, "updateExercise")
        /\ call[c].ret.updates = <<"sets (updated)", "reps (created)", "weight (updated)">>
        /\ \E d \in Callers : PrevOk(d, "updateExercise") /\ prev[d].ret.updates = <<>>

\* the value stored for metric k of slot entry e is v, in one config
Stored(k, e, v) ==
    \E g \in ListCfg(store, k, e) : g.value = CfgValue(k, v)

\* C14: when updateExerciseInRoutine fails at a metric after it wrote an
\* earlier one, the earlier write stays in the store and the caller is told
\* the outcome (created or updated) of each metric that was written.
C14_PartialSuccessReported ==
    \A c \in Callers :
        (Done(c, "updateExercise") /\ call[c].err # "" /\ call[c].reqs # <<>>
            /\ call[c].loc.updates # <<>>) =>
            LET q == call[c]
                e == q.args.slotEntryId[1]
            IN /\ \A k \in KindSet :
                     (Label(k, "created") \in Range(q.loc.updates)
                        \/ Label(k, "updated") \in Range(q.loc.updates))
                     => Stored(k, e, q.args[k][1])
               /\ q.ret # <<>>
               /\ q.ret.updates = q.loc.updates

\* addDay with description X has succeeded and the next call, a successful
\* addExerciseToRoutine, names the same routine and asks for the day X
AddedThenResolved(c) ==
    /\ PrevOk(c, "addDay") /\ Ok(c, "addExercise")
    /\ prev[c].args.routineId = call[c].args.routineId
    /\ IsSome(prev[c].args.description)
    /\ call[c].args.dayName = prev[c].args.description
    /\ prev[c].args.description[1].len <= NameMax

\* the exercise went under the day addDay returned, and no day was created
UnderAddedDay(c) ==
    /\ NReq(call[c].reqs, "POST", "day") = 0
    /\ DayOfEntry(call[c].ret) = prev[c].ret.id
    /\ store.days = call[c].pre.days

Translated(c) ==
    IF call[c].err = ""
    THEN ~resp[c].isError
    ELSE /\ resp[c].isError
         /\ resp[c].text = "Error: " \o getUserFriendlyMessage(call[c].err)

\* C16: every response of call_tool is one of three: for an unregistered name
\* isError with 'Unknown tool'; for a handler that raised, whatever the kind
\* of error, isError with the translated message; and without isError only
\* for a handler that returned.
C16_InvocationBoundary ==
    \A c \in Callers :
        resp[c].state = "responded" =>
            IF HasTool(resp[c].name)
            THEN call[c].pc = "done" /\ Translated(c)
            ELSE resp[c].isError /\ resp[c].text = UnknownTool(resp[c].name)

C16_Witness ==
    \E c \in Callers :
        /\ resp[c].state = "responded" /\ HasTool(resp[c].name)
        /\ call[c].err # "" /\ call[c].err \notin RemoteErrors
        /\ resp[c].isError

\* the configs of metric k kept for one (slot_entry, iteration) pair
ConfigsOf(k, e, it) == {x \in store[k] : x.slot_entry = e /\ x.iteration = it}

\* C17: whatever addExerciseToRoutine and updateExerciseInRoutine calls have
\* run one after another, failed ones included, the store holds at most one
\* sets config, one repetitions config and one weight config per
\* (slot_entry, iteration) pair.
C17_OneConfigPerKind ==
    \A i \in DOMAIN Kinds :
        \A x \in store[Kinds[i]] :
            Cardinality(ConfigsOf(Kinds[i], x.slot_entry, x.iteration)) = 1

\* an update that found and patched the repetitions config which an earlier,
\* failed call had left behind
C17_Witness ==
    \E c \in Callers :
        /\ Ok(c, "updateExercise")
        /\ failures = 1 /\ ncalls = 2 /\ prev[c] = Idle
        /\ NReq(call[c].reqs, "PATCH", "reps") = 1
        /\ Cardinality(ConfigsOf("reps", call[c].args.slotEntryId[1], 1)) = 1

\* the order values of the days of routine r
DayOrders(r) == {d.order : d \in DaysIn(store, r)}

\* C18: after any sequence of addDay, addExerciseToRoutine and deleteDay
\* calls run one after another, the order values of the days of each routine
\* are pairwise distinct and are exactly 1..N for its N days.
C18_OrdersContiguous ==
    \A r \in store.routines :
        /\ \A x, y \in DaysIn(store, r) : x.order = y.order => x = y
        /\ DayOrders(r) = 1..Cardinality(DaysIn(store, r))

\* caller c has listed the days and is about to create one
AboutToCreateDay(c) == At(c, "addDay", "postDay") \/ At(c, "addExercise", "postDay")

\* the body of the POST /day/ caller c is about to issue
DayToCreate(c) ==
    IF call[c].op = "addDay"
    THEN AddDayBody(call[c].args, call[c].loc.currentCount)
    ELSE NewDayBody(call[c].args, call[c].loc.existingCount)

\* two days of one routine share an order
SharedOrder ==
    \E x, y \in store.days : x.id # y.id /\ x.routine = y.routine /\ x.order = y.order

\* both callers have created their day after both had listed the days
BothCreated ==
    /\ \A c \in Callers :
          /\ call[c].op \in {"addDay", "addExercise"} /\ call[c].pc = "done"
          /\ NReq(call[c].reqs, "POST", "day") = 1
    /\ call[1].args.routineId = call[2].args.routineId
    /\ call[1].pre = call[2].pre
    /\ SharedOrder

\* C19: when two addDay calls, or an addDay and a day-creating
\* addExerciseToRoutine, on the same routine have both listed the days before
\* either creates, the two days they create have the same order.
C19_RaceSameOrder ==
    \A c, d \in Callers :
        (/\ c # d
         /\ AboutToCreateDay(c) /\ AboutToCreateDay(d)
         /\ "addDay" \in {call[c].op, call[d].op}
         /\ call[c].args.routineId = call[d].args.routineId)
        => DayToCreate(c).order = DayToCreate(d).order

\* the routine of the call had a day of the desired name when the call began
HadDesiredDay(c) ==
    \E d \in DaysIn(call[c].pre, call[c].args.routineId[1]) :
        d.name = dayNameToUse(call[c].args)

\* C20: when the routine already has a Day whose name is the desired name,
\* addExerciseToRoutine issues no POST and no PATCH on /day/, and the days of
\* the store, every field of each, are as they were before the call.
C20_ExistingDayUntouched ==
    \A c \in Callers :
        (call[c].op = "addExercise" /\ HadDesiredDay(c)) =>
            /\ NReq(call[c].reqs, "POST", "day") = 0
            /\ NReq(call[c].reqs, "PATCH", "day") = 0
            /\ store.days = call[c].pre.days

C20_Witness ==
    \E c \in Callers :
        /\ Ok(c, "addExercise") /\ HadDesiredDay(c)
        /\ NReq(call[c].reqs, "GET", "day") = 1
        /\ NReq(call[c].reqs, "POST", "slot") = 1
        /\ ById(store.days, DayOfEntry(call[c].ret)).name = dayNameToUse(call[c].args)

\* what the call of caller c has added to the store
NewSlots(c) == store.slots \ call[c].pre.slots
NewEntries(c) == store.entries \ call[c].pre.entries

\* the slots the handlers have created
CoreSlots == {s \in store.slots : ~HasId(SeedStore.slots, s.id)}

\* a successful addExerciseToRoutine has added one slot, order 1, under the
\* resolved day, and one entry, order 1, for the exercise, in that slot
OneSlotOneEntry(c) ==
    /\ call[c].pre.slots \subseteq store.slots
    /\ call[c].pre.entries \subseteq store.entries
    /\ \E s \in NewSlots(c), e \in NewEntries(c) :
          /\ NewSlots(c) = {s} /\ NewEntries(c) = {e}
          /\ s.order = 1 /\ s.day = call[c].loc.day /\ s.id = call[c].ret.slot
          /\ e.order = 1 /\ e.slot = s.id /\ e.id = call[c].ret.id
          /\ e.exercise = call[c].args.exerciseId[1]

\* C21 (as claimed): every successful addExerciseToRoutine creates exactly one
\* new Slot and one new SlotEntry in it, and every Slot created by the core
\* holds exactly one SlotEntry.
C21_OwnSlotAsClaimed ==
    \A c \in Solo :
        /\ Ok(c, "addExercise") => OneSlotOneEntry(c)
        /\ ~Busy(c) =>
              \A s \in CoreSlots : Cardinality(ListEntries(store, s.id)) = 1

\* C21 (amended): every successful addExerciseToRoutine creates exactly one
\* new Slot and one new SlotEntry in it, and every Slot created by the core
\* holds at most one SlotEntry: one when its call succeeded, none when the
\* call failed between the two creations.
C21_OwnSlot ==
    \A c \in Solo :
        /\ Ok(c, "addExercise") => OneSlotOneEntry(c)
        /\ \A s \in CoreSlots : Cardinality(ListEntries(store, s.id)) <= 1

\* the exercise went into a day that already had slots
C21_Witness ==
    \E c \in Solo :
        /\ Ok(c, "addExercise") /\ OneSlotOneEntry(c)
        /\ ListSlots(call[c].pre, call[c].loc.day) # {}

\* every record the call has created so far hangs under the id the store
\* returned in the step before
LinkedToParent(q) ==
    /\ q.loc.slot # 0 => ById(store.slots, q.loc.slot).day = q.loc.day
    /\ q.loc.entry # 0 => ById(store.entries, q.loc.entry).slot = q.loc.slot
    /\ q.loc.setsConfigId # 0 =>
          ById(store.sets, q.loc.setsConfigId).slot_entry = q.loc.entry
    /\ q.loc.repsConfigId # 0 =>
          ById(store.reps, q.loc.repsConfigId).slot_entry = q.loc.entry
    /\ (q.pc = "done" /\ q.err = "" /\ IsSome(q.ret.weightConfigId)) =>
          ById(store.weight, q.ret.weightConfigId[1]).slot_entry = q.loc.entry

\* C22: within one addExerciseToRoutine call the mutations are issued in the
\* order day (if created), slot, slot entry, sets, reps, weight, each only
\* after the request before it has returned, and each child is created under
\* the id the store returned for its parent.
C22_MutationsInOrder ==
    \A c \in Solo :
        (call[c].op = "addExercise" /\ call[c].reqs # <<>>) =>
            /\ FollowsChain(call[c].reqs)
            /\ \A i \in 1..(Len(call[c].reqs) - 1) : call[c].reqs[i].out = "ok"
            /\ LinkedToParent(call[c])

\* a call that went through all six mutations
C22_Witness ==
    \E c \in Solo :
        /\ Ok(c, "addExercise") /\ LinkedToParent(call[c])
        /\ Len(call[c].reqs) = Len(AddExerciseChain)
        /\ NReq(call[c].reqs, "POST", "day") = 1
        /\ NReq(call[c].reqs, "POST", "weight") = 1

\* the new slot entry has exactly one config of kind k, the one with this id
OneConfig(k, e, id) ==
    \E g \in ListCfg(store, k, e) : ListCfg(store, k, e) = {g} /\ g.id = id

\* C23: a successful addExerciseToRoutine has created one sets config and
\* one repetitions config for the new slot entry, and a weight config exactly
\* when a weight was supplied, 0 included; the result carries weightConfigId
\* exactly in that case.
C23_ConfigsCreated ==
    \A c \in Solo :
        Ok(c, "addExercise") =>
            LET q == call[c] IN
            /\ OneConfig("sets", q.ret.id, q.ret.setsConfigId)
            /\ OneConfig("reps", q.ret.id, q.ret.repsConfigId)
            /\ IsSome(q.args.weight) <=> IsSome(q.ret.weightConfigId)
            /\ IF IsSome(q.args.weight)
               THEN OneConfig("weight", q.ret.id, q.ret.weightConfigId[1])
               ELSE ListCfg(store, "weight", q.ret.id) = {}

\* a call given the weight 0
C23_Witness ==
    \E c \in Solo :
        /\ Ok(c, "addExercise") /\ call[c].args.weight = Some(0)
        /\ OneConfig("weight", call[c].ret.id, call[c].ret.weightConfigId[1])
        /\ ById(store.weight, call[c].ret.weightConfigId[1]).value = NumToString(0)

\* getRoutineDetails has raised the error of a remote read
ReadFailed(c) ==
    /\ Done(c, "getRoutineDetails")
    /\ call[c].err \in RemoteErrors

\* the failure was in the fan-out
InFanOut(c) == "open" \in DOMAIN call[c].loc

\* the read whose answer led to the read r
ParentRead(r) ==
    IF r.coll = "slot-entry" THEN Read("slot", ById(store.slots, r.of).day)
    ELSE Read("slot-entry", ById(store.entries, r.of).slot)

\* the handler raised the error of the read that failed first and returned
\* no tree
RaisedFirstFailure(c) ==
    /\ call[c].ret = <<>>
    /\ IF InFanOut(c)
       THEN call[c].err = call[c].loc.failed[1].out
       ELSE call[c].err = call[c].reqs[Len(call[c].reqs)].out

\* C24 (as claimed): when a remote read of getRoutineDetails fails, the
\* handler raises that error, returns no partial tree, and no further remote
\* call of the invocation is issued after the failure.
C24_AbortAsClaimed ==
    \A c \in Solo :
        ReadFailed(c) =>
            /\ RaisedFirstFailure(c)
            /\ InFanOut(c) => call[c].loc.late = {}

\* C24 (amended): when a remote read of getRoutineDetails fails, the handler
\* raises that error and returns no partial tree; no further remote call
\* follows a failed token, routine or day-list read, and after a failed read
\* of the fan-out the only reads still issued are those that follow the
\* answers of the other reads outstanding at the failure.
C24_Abort ==
    \A c \in Solo :
        ReadFailed(c) =>
            /\ RaisedFirstFailure(c)
            /\ InFanOut(c) =>
                  \A r \in call[c].loc.late :
                      /\ \A i \in 1..Len(call[c].loc.failed) :
                            Read(call[c].loc.failed[i].coll, call[c].loc.failed[i].of)
                                # ParentRead(r)
                      /\ ParentRead(r) \notin call[c].loc.open

\* the slot read of one day failed and the entries of the other day's slots
\* were read afterwards
C24_Witness ==
    \E c \in Solo :
        /\ ReadFailed(c) /\ InFanOut(c) /\ RaisedFirstFailure(c)
        /\ call[c].loc.failed[1].coll = "slot"
        /\ \E r \in call[c].loc.late : r.coll = "slot-entry"

\* the trees the store content determines for the days read
TreesOfStore(c) == populatedDays(store, call[c].loc.days)

\* C25: for a fixed store content the tree getRoutineDetails returns is the
\* same in whatever order the reads of the fan-out are answered: it is the
\* one tree the store content determines.
C25_TreeDeterministic ==
    \A c \in Solo :
        (Ok(c, "getRoutineDetails") /\ InFanOut(c)) =>
            /\ TreesOfStore(c) # {}
            /\ \A t \in TreesOfStore(c) : call[c].ret.days = t

\* the branch of the second day settled before that of the first
C25_Witness ==
    \E c \in Solo :
        /\ Ok(c, "getRoutineDetails") /\ InFanOut(c)
        /\ Len(call[c].loc.days) = 2
        /\ call[c].loc.settled = <<call[c].loc.days[2].id, call[c].loc.days[1].id>>
        /\ call[c].ret.days \in TreesOfStore(c)

\* C26: getRoutineDetails is read-only: in every execution, successful or
\* failing, every request it sends to the store is a GET, and the routines,
\* days, slots, slot entries and configs of the store are as before the call.
C26_ReadOnly ==
    \A c \in Solo :
        call[c].op = "getRoutineDetails" =>
            /\ \A i \in 1..Len(call[c].reqs) : call[c].reqs[i].m \in {"TOKEN", "GET"}
            /\ store = call[c].pre

\* a successful execution that read slots, entries and configs
C26_Witness ==
    \E c \in Solo :
        /\ Ok(c, "getRoutineDetails")
        /\ NReq(call[c].reqs, "GET", "slot") = 2
        /\ NReq(call[c].reqs, "GET", "slot-entry") = 2
        /\ NReq(call[c].reqs, "GET", "weight") = 2
        /\ store = call[c].pre

\* a day of the tree without its slots
DayFields(t) ==
    [id |-> t.id, routine |-> t.routine, order |-> t.order, name |-> t.name,
     description |-> t.description, is_rest |-> t.is_rest]

\* the days of the list the remote returned that belong to the routine
ListedOfRoutine(q) ==
    {d \in Range(q.loc.results) : d.routine = q.args.routineId[1]}

\* C27: the days of the tree getRoutineDetails(routineId) returns are exactly
\* the days of the remote list whose routine is routineId, each once, also
\* when the list carries days of other routines.
C27_OwnDaysOnly ==
    \A c \in Solo :
        Ok(c, "getRoutineDetails") =>
            LET q == call[c] IN
            /\ {DayFields(t) : t \in Range(q.ret.days)} = ListedOfRoutine(q)
            /\ Len(q.ret.days) = Cardinality(ListedOfRoutine(q))

\* the list carried days of another routine next to the routine's own
C27_Witness ==
    \E c \in Solo :
        /\ Ok(c, "getRoutineDetails")
        /\ \E d \in Range(call[c].loc.results) : d.routine # call[c].args.routineId[1]
        /\ ListedOfRoutine(call[c]) # {}
        /\ {DayFields(t) : t \in Range(call[c].ret.days)} = ListedOfRoutine(call[c])

\* C28: after any sequence of addDay, updateDay and addExerciseToRoutine
\* calls, no Day with is_rest = true owns a Slot.
C28_RestDayHasNoSlot ==
    \A d \in store.days : d.is_rest => ListSlots(store, d.id) = {}

\* the Day name of the creation or update the call of caller c has sent
SentDayName(c) ==
    LET q == call[c] IN
    IF q.op = "addDay" /\ NReq(q.reqs, "POST", "day") = 1
    THEN AddDayBody(q.args, q.loc.currentCount).name
    ELSE IF q.op = "updateDay" /\ NReq(q.reqs, "PATCH", "day") = 1
    THEN UpdateDayBody(q.args).name
    ELSE IF q.op = "addExercise" /\ NReq(q.reqs, "POST", "day") = 1
    THEN NewDayBody(q.args, q.loc.existingCount).name
    ELSE None

\* C29: every Day name the core sends to the store, through addDay,
\* updateDay or the day creation of addExerciseToRoutine, has at most 50
\* characters.
C29_SentNameWithinMax ==
    \A c \in Solo :
        IsSome(SentDayName(c)) => SentDayName(c)[1].len <= NameMax

\* C30: after any sequence of addDay and addExerciseToRoutine calls run one
\* after another on a routine, the names of the days of the routine are
\* pairwise distinct.
C30_DayNamesDistinct ==
    \A r \in store.routines :
        \A x, y \in DaysIn(store, r) : x.name = y.name => x.id = y.id

-----------------------------------------------------------------------------
\* callers c and d both run updateExerciseInRoutine with metric k for the
\* same slot entry, which had no config of that kind when either call began
SameMetricRace(c, d, k) ==
    /\ c # d
    /\ call[c].op = "updateExercise" /\ call[d].op = "updateExercise"
    /\ call[c].err # "AuthenticationError" /\ call[c].err # "ZodError"
    /\ call[d].err # "AuthenticationError" /\ call[d].err # "ZodError"
    /\ call[c].args.slotEntryId = call[d].args.slotEntryId
    /\ IsSome(call[c].args[k]) /\ IsSome(call[d].args[k])
    /\ ListCfg(call[c].pre, k, call[c].args.slotEntryId[1]) = {}
    /\ ListCfg(call[d].pre, k, call[d].args.slotEntryId[1]) = {}

\* C31: when two interleaved updateExerciseInRoutine calls supply the same
\* metric for the same slot entry, and the entry has no config of that kind,
\* the store never holds two configs of that kind for the slot entry.
C31_NoDuplicateUnderRace ==
    \A c, d \in Callers :
        \A i \in DOMAIN Kinds :
            SameMetricRace(c, d, Kinds[i])
            => Cardinality(ListCfg(store, Kinds[i], call[c].args.slotEntryId[1])) <= 1

-----------------------------------------------------------------------------
\* every slot of the tree lies under its own day, every entry under its own slot
ConsistentBelowDay(tree) ==
    \A i \in DOMAIN tree.days :
        \A j \in DOMAIN tree.days[i].slots :
            LET slot == tree.days[i].slots[j] IN
            /\ slot.day = tree.days[i].id
            /\ \A m \in DOMAIN slot.entries : slot.entries[m].slot = slot.id

\* C32: in the tree getRoutineDetails returns, every Slot under a Day has
\* slot.day equal to the Day's id and every SlotEntry under a Slot has
\* entry.slot equal to the Slot's id, also when the slot and slot-entry list
\* endpoints ignore their filters.
C32_TreeConsistent ==
    \A c \in Callers : Ok(c, "getRoutineDetails") => ConsistentBelowDay(call[c].ret)

-----------------------------------------------------------------------------
\* the order the spec's resolver gives a new day of the routine of caller c:
\* the number of days of that routine in the store, plus one
NextDayOrder(c) == Cardinality(DaysIn(store, call[c].args.routineId[1])) + 1

\* C33: addDay and the day-creating path of addExerciseToRoutine assign the
\* same order for the same store state: the day either is about to create
\* has the order (number of stored days of the routine) + 1, also when the
\* day list carried days of other routines.
C33_SameOrderRule ==
    \A c \in Callers : AboutToCreateDay(c) => DayToCreate(c).order = NextDayOrder(c)

\* the addExerciseToRoutine half alone
AddExerciseOrderRule ==
    \A c \in Callers :
        At(c, "addExercise", "postDay") => DayToCreate(c).order = NextDayOrder(c)


=============================================================================
